---- MODULE Spec2Model ----
(***************************************************************************)
(* Random-walker simulation (src/simulation.py, src/walker.py,             *)
(* src/plane.py, src/utils.py).                                            *)
(*                                                                         *)
(* Coordinates are integers on a grid of Unit points per unit length, so   *)
(* the unit vector (0, 1) of the code is <<0, Unit>> here, and (3, 4) is a *)
(* unit vector that is neither horizontal nor vertical.  Segment           *)
(* intersections are computed exactly with cross products; a distance is   *)
(* a fixed-point number with DistPrec digits per grid point.               *)
(***************************************************************************)
EXTENDS Integers, Sequences, FiniteSets, TLC

\* grid points per unit length: UP = (0, 1) is <<0, Unit>>
Unit == 5
\* fixed-point resolution of math.sqrt in get_distance, per grid point
DistPrec == 200

\* upper bound of args.steps
MaxSteps == 3
\* upper bound of args.simulations
MaxSims == 2
\* upper bound of args.steps * args.simulations
MaxBudget == 6

---------------------------------------------------------------------------
(* Arithmetic helpers *)

Abs(v) == IF v < 0 THEN -v ELSE v

Sgn(v) == IF v > 0 THEN 1 ELSE IF v < 0 THEN -1 ELSE 0

Min(a, b) == IF a <= b THEN a ELSE b

Max(a, b) == IF a >= b THEN a ELSE b

RECURSIVE SqrtSearch(_, _, _)
\* largest r in lo..hi with r * r <= n
SqrtSearch(n, lo, hi) ==
    IF lo >= hi THEN lo
    ELSE LET mid == (lo + hi + 1) \div 2
         IN  IF mid * mid <= n THEN SqrtSearch(n, mid, hi)
                               ELSE SqrtSearch(n, lo, mid - 1)

\* math.sqrt, rounded down to an integer
ISqrt(n) == SqrtSearch(n, 0, Min(n, 46340))

---------------------------------------------------------------------------
(* src/utils.py: direction vectors *)

UP == <<0, Unit>>

DOWN == <<0, -Unit>>

RIGHT == <<Unit, 0>>

LEFT == <<-Unit, 0>>

Origin == <<0, 0>>

\* the unit vectors (cos a, sin a) that lie on the grid
UnitCircle ==
    {UP, DOWN, RIGHT, LEFT} \cup
    {<<sx * 3, sy * 4>> : sx \in {-1, 1}, sy \in {-1, 1}} \cup
    {<<sx * 4, sy * 3>> : sx \in {-1, 1}, sy \in {-1, 1}}

---------------------------------------------------------------------------
(* src/plane.py: segments and their intersection (shapely LineString)      *)

Obstacle(start, end) == [start |-> start, end |-> end]

Portal(start, end, destination) ==
    [start |-> start, end |-> end, destination |-> destination]

\* z component of (a - o) x (b - o)
Cross(o, a, b) ==
    (a[1] - o[1]) * (b[2] - o[2]) - (a[2] - o[2]) * (b[1] - o[1])

\* (p - a) . (b - a)
Dot(a, b, p) ==
    (p[1] - a[1]) * (b[1] - a[1]) + (p[2] - a[2]) * (b[2] - a[2])

Empty == [kind |-> "empty", num |-> 0, den |-> 1]

PointAt(num, den) == [kind |-> "point", num |-> num, den |-> den]

Line == [kind |-> "line", num |-> 0, den |-> 1]

\* two collinear segments: a -> b of squared length len, and c -> d whose
\* ends project onto a -> b at sc and sd
Overlap(len, lo, hi) ==
    IF lo > hi THEN Empty
    ELSE IF lo = hi THEN PointAt(lo, len)
    ELSE Line

\* the intersection, from the cross products d1 = (c, d, a), d2 = (c, d, b),
\* d3 = (a, b, c) and d4 = (a, b, d)
IntersectionOf(a, b, c, d, d1, d2, d3, d4) ==
    IF a = b
    THEN IF d1 = 0 /\ Dot(c, d, a) >= 0 /\ Dot(c, d, a) <= Dot(c, d, d)
         THEN PointAt(0, 1) ELSE Empty
    ELSE IF d1 = 0 /\ d2 = 0
    THEN Overlap(Dot(a, b, b),
                 Max(0, Min(Dot(a, b, c), Dot(a, b, d))),
                 Min(Dot(a, b, b), Max(Dot(a, b, c), Dot(a, b, d))))
    ELSE IF Sgn(d1) * Sgn(d2) <= 0 /\ Sgn(d3) * Sgn(d4) <= 0
    THEN PointAt(Abs(d1), Abs(d1) + Abs(d2))
    ELSE Empty

\* path.intersection(line) for the path a -> b and the segment c -> d:
\* empty, a point (at the fraction num / den of the way from a to b), or a
\* line when the two segments are collinear and overlap in more than a point.
\* A path of length zero is the point set {a}.
Intersection(a, b, c, d) ==
    IntersectionOf(a, b, c, d, Cross(c, d, a), Cross(c, d, b), Cross(a, b, c),
                   Cross(a, b, d))

\* distance <= min_distance in place of distance < min_distance
CloserOrEqual(x, best) ==
    \/ best.tag = "none"
    \/ x.num * best.den <= best.num * x.den

\* distance < min_distance, both measured from current_position along the
\* same path: the fractions of the path length are compared
Closer(x, best) ==
    \/ best.tag = "none"
    \/ x.num * best.den < best.num * x.den

NoHit == [tag |-> "none", idx |-> 0, num |-> 0, den |-> 1]

AttributeError == [tag |-> "AttributeError", idx |-> 0, num |-> 0, den |-> 1]

\* the body of a for loop of check_intersection, for the object k of kind
\* tag and its intersection x with the path: intersection.x raises
\* AttributeError on a LineString
Nearest(tag, k, x, best) ==
    IF x.kind = "line" THEN AttributeError
    ELSE IF x.kind = "point" /\ Closer(x, best)
    THEN [tag |-> tag, idx |-> k, num |-> x.num, den |-> x.den]
    ELSE best

RECURSIVE ScanSegments(_, _, _, _, _, _)
\* one of the two for loops of check_intersection over segs[k..], from the
\* best hit so far
ScanSegments(a, b, segs, tag, k, best) ==
    IF best.tag = "AttributeError" \/ k > Len(segs) THEN best
    ELSE ScanSegments(a, b, segs, tag, k + 1,
             Nearest(tag, k, Intersection(a, b, segs[k].start, segs[k].end), best))

\* lines 206 - 210 of check_intersection
Intersected(best, next_position) ==
    IF best.tag = "none"
    THEN [tag |-> "point", idx |-> 0, pos |-> next_position]
    ELSE [tag |-> best.tag, idx |-> best.idx, pos |-> Origin]

\* Plane.check_intersection: [tag |-> "point", pos |-> next_position] when
\* nothing is hit, else the tag and index of the object hit
check_intersection(pl, current_position, next_position) ==
    Intersected(ScanSegments(current_position, next_position, pl.portals, "portal", 1,
                    ScanSegments(current_position, next_position, pl.obstacles,
                                 "obstacle", 1, NoHit)),
                next_position)

---------------------------------------------------------------------------
(* src/walker.py *)

NORMAL_WALKER == 1

UNEVEN_STEP_WALKER == 2

DISCRETE_WALKER == 3

UNEVEN_DISTRIBUTION_WALKER == 4

ACCEPTABLE_WALKER_TYPES ==
    {NORMAL_WALKER, UNEVEN_STEP_WALKER, DISCRETE_WALKER, UNEVEN_DISTRIBUTION_WALKER}

\* Walker.__init__
Walker(walker_type) ==
    [x |-> 0, y |-> 0, steps |-> 0, path |-> <<Origin>>, walker_type |-> walker_type]

\* random.uniform(0, 2 * pi): the angles drawn, as the vectors (cos a, sin a)
AnglesDrawn == {RIGHT, UP, <<-3, -4>>}

\* random.uniform(0, 2 * pi) and random.uniform(0.5, 1.5): the products
\* step * (cos a, sin a) drawn, of the lengths 1, 1.4 and 0.6
StepsDrawn == {RIGHT, <<0, 7>>, <<-3, 0>>}

\* Walker.get_next_move: the displacements (dx, dy) it can return
get_next_move(w) ==
    IF w.walker_type = NORMAL_WALKER THEN AnglesDrawn
    ELSE IF w.walker_type = UNEVEN_STEP_WALKER THEN StepsDrawn
    ELSE IF w.walker_type = DISCRETE_WALKER THEN {UP, DOWN, RIGHT, LEFT}
    ELSE {UP, DOWN, RIGHT, LEFT, <<-w.x, -w.y>>}

\* Walker.move
move(w, dx, dy) ==
    [w EXCEPT !.x = w.x + dx, !.y = w.y + dy, !.steps = w.steps + 1,
              !.path = Append(w.path, <<w.x + dx, w.y + dy>>)]

\* Walker.get_position
get_position(w) == <<w.x, w.y>>

\* set_position with the path append of move
SetPositionAppending(w, x, y) ==
    [w EXCEPT !.x = x, !.y = y, !.path = Append(w.path, <<x, y>>)]

\* set_position taking its arguments for a displacement, as move does
SetPositionRelative(w, x, y) == [w EXCEPT !.x = w.x + x, !.y = w.y + y]

\* Walker.set_position
set_position(w, x, y) == [w EXCEPT !.x = x, !.y = y]

\* Walker.get_distance, in units of 1 / (Unit * DistPrec)
get_distance(w) == ISqrt((Abs(w.x) * Abs(w.x) + Abs(w.y) * Abs(w.y)) * DistPrec * DistPrec)

\* the 10 of `walker.get_distance() > 10`, in the units of get_distance
ExitRadius == 10 * Unit * DistPrec

---------------------------------------------------------------------------
(* src/utils.py: has_possible_moves *)

\* lines 58 and 69: a move is possible when check_intersection does not
\* return an Obstacle
Possible(r) ==
    IF r.tag = "AttributeError" THEN "AttributeError"
    ELSE IF r.tag = "obstacle" THEN "blocked"
    ELSE "possible"

\* lines 54 - 59: one candidate move
Probe(pl, current_position, mv) ==
    Possible(check_intersection(pl, current_position,
                 <<current_position[1] + mv[1], current_position[2] + mv[2]>>))

\* "blocked" when all of the outcomes rs are
FirstOf(rs) ==
    IF \A k \in 1..Len(rs) : rs[k] = "blocked" THEN "blocked"
    ELSE rs[CHOOSE k \in 1..Len(rs) :
                /\ rs[k] # "blocked"
                /\ \A j \in 1..(k - 1) : rs[j] = "blocked"]

\* the loop over possible_moves: the first move that is possible or raises
ProbeInOrder(pl, current_position, moves) ==
    FirstOf([k \in 1..Len(moves) |-> Probe(pl, current_position, moves[k])])

\* lines 59 - 73: the outcomes, given the outcome of the fixed moves and
\* the outcomes of the directions that can be drawn
Outcomes(walker_type, fixed, drawn) ==
    IF fixed = "possible" THEN {"True"}
    ELSE IF fixed = "AttributeError" THEN {"AttributeError"}
    ELSE IF walker_type \in {1, 2}
    THEN (IF "possible" \in drawn THEN {"True"} ELSE {}) \cup
         (IF "AttributeError" \in drawn THEN {"AttributeError"} ELSE {}) \cup
         (IF "blocked" \in drawn THEN {"False"} ELSE {})
    ELSE {"False"}

\* has_possible_moves: the set of its outcomes, "True", "False" or
\* "AttributeError".  The 100 random directions of the two continuous kinds
\* are drawn from UnitCircle: some draw may be possible, some draw may
\* raise, and all of them may be blocked.
has_possible_moves(w, pl) ==
    Outcomes(w.walker_type,
             ProbeInOrder(pl, get_position(w),
                          <<UP, DOWN, RIGHT, LEFT, <<-w.x, -w.y>> >>),
             {Probe(pl, get_position(w), mv) : mv \in UnitCircle})

---------------------------------------------------------------------------
(* The environments and arguments of a session (args of run_simulation) *)

Free == [obstacles |-> <<>>, portals |-> <<>>]

\* a closed box of side 1.2 around the origin
BoxAtOrigin ==
    [obstacles |-> << Obstacle(<<-3, -3>>, <<3, -3>>), Obstacle(<<3, -3>>, <<3, 3>>),
                      Obstacle(<<3, 3>>, <<-3, 3>>), Obstacle(<<-3, 3>>, <<-3, -3>>) >>,
     portals |-> <<>>]

\* a closed box around (1, 1) that no axis through the origin touches
BoxAwayFromOrigin ==
    [obstacles |-> << Obstacle(<<2, 6>>, <<6, 2>>), Obstacle(<<6, 2>>, <<8, 6>>),
                      Obstacle(<<8, 6>>, <<6, 8>>), Obstacle(<<6, 8>>, <<2, 6>>) >>,
     portals |-> <<>>]

\* a wall across the first move to the right, a wall along the x-axis on the
\* left, and a wall along the y-axis above (0, 1)
Walls ==
    [obstacles |-> << Obstacle(<<3, -2>>, <<3, 2>>), Obstacle(<<-12, 0>>, <<-2, 0>>),
                      Obstacle(<<0, 7>>, <<0, 12>>) >>,
     portals |-> <<>>]

\* two portals that no first move touches, to radius 10 and beyond it, and
\* one across the first move down
Portals ==
    [obstacles |-> <<>>,
     portals |-> << Portal(<<2, 2>>, <<4, 4>>, <<50, 0>>),
                    Portal(<<-3, 3>>, <<-2, 2>>, <<60, 0>>),
                    Portal(<<-2, -3>>, <<2, -3>>, <<0, -60>>) >>]

Environments == {Free, BoxAtOrigin, BoxAwayFromOrigin, Walls, Portals}

Arguments ==
    {a \in [walker_type : ACCEPTABLE_WALKER_TYPES, steps : 1..MaxSteps,
            simulations : 1..MaxSims, n_steps : 1..MaxSteps] :
        /\ a.n_steps <= a.steps
        /\ a.steps * a.simulations <= MaxBudget}

---------------------------------------------------------------------------
(* src/simulation.py: run_simulation *)

VARIABLES
    args,                   \* walker_type, steps, simulations, n_steps
    plane,                  \* obstacles and portals
    pc,                     \* "start", "loop", "endrun", "report", "done",
                            \* or the exception that ended run_simulation
    i,                      \* index of the outer for loop
    step,                   \* index of the inner for loop
    walker,
    sim,                    \* the simulation_* locals of the current run
    tot,                    \* the total_* locals
    multi_simulation_stats,
    previous_position,
    intersection,           \* the last result of check_intersection in the loop
    trace,                  \* history: the position after each step of the run
    printed                 \* the averages printed at the end

vars == <<args, plane, pc, i, step, walker, sim, tot, multi_simulation_stats,
          previous_position, intersection, trace, printed>>

None == <<>>

NoIntersection == [tag |-> "none", idx |-> 0, pos |-> Origin]

\* lines 40 - 48
NewSimulation ==
    [stats |-> <<>>, distance_from_origin |-> 0, exit_time |-> None,
     distance_from_x_axis |-> 0, distance_from_y_axis |-> 0,
     y_axis_cross_count |-> 0, steps_to_exit |-> 0, unsuccessful_moves |-> 0]

\* lines 19 - 26
NoTotals ==
    [distance_from_origin |-> 0, exit_time |-> 0, distance_from_x_axis |-> 0,
     distance_from_y_axis |-> 0, steps_to_exit |-> 0, y_axis_crosses |-> 0,
     unsuccessful_moves |-> 0]

Init ==
    /\ args \in Arguments
    /\ plane \in Environments
    /\ pc = "start"
    /\ i = 0
    /\ step = 0
    /\ walker = Walker(args.walker_type)
    /\ sim = NewSimulation
    /\ tot = NoTotals
    /\ multi_simulation_stats = <<>>
    /\ previous_position = Origin
    /\ intersection = NoIntersection
    /\ trace = <<>>
    /\ printed = None

\* lines 38 - 55: a fresh walker and fresh simulation_* locals
StartRun ==
    /\ pc = "start"
    /\ pc' = "loop"
    /\ step' = 0
    /\ walker' = Walker(args.walker_type)
    /\ sim' = NewSimulation
    /\ previous_position' = Origin
    /\ intersection' = NoIntersection
    /\ trace' = <<>>
    /\ UNCHANGED <<args, plane, i, tot, multi_simulation_stats, printed>>

\* a / b of two numbers, kept as the pair <<a, b>>
Div(a, b) == <<a, b>>

\* line 76: the walker's position has changed
Changed(w, prev) == get_position(w) # prev

\* lines 78 - 81: the running sums, d being walker.get_distance()
Accumulated(s, position, d) ==
    [s EXCEPT !.distance_from_origin = @ + d,
              !.distance_from_x_axis = @ + Abs(position[2]),
              !.distance_from_y_axis = @ + Abs(position[1])]

\* lines 83 - 85: the second operand of the `or` is evaluated, and with it
\* walker.get_path()[-2]
ReadsPath(prev, position) ==
    /\ ~(prev[1] * position[1] < 0)
    /\ prev[1] * position[1] = 0

\* lines 83 - 85: the condition under which the y-axis counts as crossed
Crossed(prev, position, path) ==
    \/ prev[1] * position[1] < 0
    \/ /\ prev[1] * position[1] = 0
       /\ prev[1] * path[Len(path) - 1][1] # 0

\* line 86
Counted(s, crossed) ==
    IF crossed THEN [s EXCEPT !.y_axis_cross_count = @ + 1] ELSE s

\* lines 88 - 90 without the assignment of line 90
ExitedUncounted(s, w, d) ==
    IF s.exit_time = None /\ d > ExitRadius
    THEN [s EXCEPT !.exit_time = <<step + 1>>]
    ELSE s

\* lines 88 - 90 without the test `simulation_exit_time is None`
ExitedOverwriting(s, w, d) ==
    IF d > ExitRadius
    THEN [s EXCEPT !.exit_time = <<step + 1>>, !.steps_to_exit = w.steps]
    ELSE s

\* lines 88 - 90: the exit metrics, d being walker.get_distance(); the time
\* elapsed since the run was entered is counted in iterations of the loop
Exited(s, w, d) ==
    IF s.exit_time = None /\ d > ExitRadius
    THEN [s EXCEPT !.exit_time = <<step + 1>>, !.steps_to_exit = w.steps]
    ELSE s

\* lines 92 - 95: the sums of the run are added to the totals
Folded(t, s) ==
    IF args.n_steps = step + 1
    THEN [t EXCEPT !.distance_from_origin = @ + s.distance_from_origin,
                   !.distance_from_x_axis = @ + s.distance_from_x_axis,
                   !.distance_from_y_axis = @ + s.distance_from_y_axis]
    ELSE t

\* lines 97 - 105 with the sums divided by step instead of step + 1
RecordedDividedByStep(s) ==
    [s EXCEPT !.stats = Append(@,
        [index |-> step + 1,
         x_axis |-> Div(s.distance_from_x_axis, step),
         y_axis |-> Div(s.distance_from_y_axis, step),
         origin |-> Div(s.distance_from_origin, step)])]

\* lines 97 - 105: the statistics record of the step
Recorded(s) ==
    [s EXCEPT !.stats = Append(@,
        [index |-> step + 1,
         x_axis |-> Div(s.distance_from_x_axis, step + 1),
         y_axis |-> Div(s.distance_from_y_axis, step + 1),
         origin |-> Div(s.distance_from_origin, step + 1)])]

\* lines 92 - 105, for the locals s after lines 78 - 90
AccountChanged(s) ==
    [exception |-> "", sim |-> Recorded(s), tot |-> Folded(tot, s)]

\* lines 76 - 105: the statistics of one step, for the walker w after the
\* move was resolved, the position prev recorded in line 61 and the
\* simulation_* locals s.  walker.get_path()[-2] raises IndexError on a path
\* of one entry.
Account(w, prev, s) ==
    IF ~Changed(w, prev)
    THEN [exception |-> "", sim |-> Recorded(s), tot |-> tot]
    ELSE IF ReadsPath(prev, get_position(w)) /\ Len(w.path) < 2
    THEN [exception |-> "IndexError",
          sim |-> Accumulated(s, get_position(w), get_distance(w)), tot |-> tot]
    ELSE AccountChanged(
             Exited(Counted(Accumulated(s, get_position(w), get_distance(w)),
                            Crossed(prev, get_position(w), w.path)),
                    w, get_distance(w)))

\* the state after an iteration whose statistics are r
Accounted(w, inter, r) ==
    /\ walker' = w
    /\ intersection' = inter
    /\ previous_position' = get_position(walker)
    /\ trace' = Append(trace, get_position(w))
    /\ sim' = r.sim
    /\ tot' = r.tot
    /\ IF r.exception # ""
       THEN pc' = r.exception /\ step' = step
       ELSE /\ step' = step + 1
            /\ pc' = IF step + 1 < args.steps THEN "loop" ELSE "endrun"
    /\ UNCHANGED <<args, plane, i, multi_simulation_stats, printed>>

\* lines 61 - 105 after check_intersection returned inter and the move was
\* resolved into the walker w and the locals s
EndOfStep(w, inter, s) == Accounted(w, inter, Account(w, get_position(walker), s))

\* lines 59 - 60 with the step skipped (a record written, the loop continued)
\* instead of the run ended
NoMovesStepSkipped ==
    /\ pc = "loop"
    /\ "False" \in has_possible_moves(walker, plane)
    /\ sim' = Recorded(sim)
    /\ step' = step + 1
    /\ trace' = Append(trace, get_position(walker))
    /\ pc' = IF step + 1 < args.steps THEN "loop" ELSE "endrun"
    /\ UNCHANGED <<args, plane, i, walker, tot, multi_simulation_stats,
                   previous_position, intersection, printed>>

\* lines 59 - 60: has_possible_moves is false, the run ends early
NoMoves ==
    /\ pc = "loop"
    /\ "False" \in has_possible_moves(walker, plane)
    /\ pc' = "endrun"
    /\ UNCHANGED <<args, plane, i, step, walker, sim, tot, multi_simulation_stats,
                   previous_position, intersection, trace, printed>>

\* line 59: check_intersection raises inside has_possible_moves
HasPossibleMovesRaises ==
    /\ pc = "loop"
    /\ "AttributeError" \in has_possible_moves(walker, plane)
    /\ pc' = "AttributeError"
    /\ UNCHANGED <<args, plane, i, step, walker, sim, tot, multi_simulation_stats,
                   previous_position, intersection, trace, printed>>

\* line 63: the displacement returned by get_next_move is passed as the
\* next position
Resolve(next_position) ==
    check_intersection(plane, get_position(walker), next_position)

\* lines 61 - 63: check_intersection raises
CheckIntersectionRaises ==
    /\ pc = "loop"
    /\ "True" \in has_possible_moves(walker, plane)
    /\ \E next_position \in get_next_move(walker) :
           Resolve(next_position).tag = "AttributeError"
    /\ pc' = "AttributeError"
    /\ previous_position' = get_position(walker)
    /\ UNCHANGED <<args, plane, i, step, walker, sim, tot, multi_simulation_stats,
                   intersection, trace, printed>>

\* lines 61 - 73, no object hit: walker.move(*intersection)
StepMove ==
    /\ pc = "loop"
    /\ "True" \in has_possible_moves(walker, plane)
    /\ \E next_position \in get_next_move(walker) :
           LET inter == Resolve(next_position)
           IN  /\ inter.tag = "point"
               /\ EndOfStep(move(walker, inter.pos[1], inter.pos[2]), inter, sim)

\* lines 61 - 70 without the increment of line 70
StepObstacleUncounted ==
    /\ pc = "loop"
    /\ "True" \in has_possible_moves(walker, plane)
    /\ \E next_position \in get_next_move(walker) :
           LET inter == Resolve(next_position)
           IN  /\ inter.tag = "obstacle"
               /\ EndOfStep(walker, inter, sim)

\* lines 61 - 70, an obstacle hit: the move is counted as unsuccessful
StepObstacle ==
    /\ pc = "loop"
    /\ "True" \in has_possible_moves(walker, plane)
    /\ \E next_position \in get_next_move(walker) :
           LET inter == Resolve(next_position)
           IN  /\ inter.tag = "obstacle"
               /\ EndOfStep(walker, inter,
                            [sim EXCEPT !.unsuccessful_moves = @ + 1])

\* lines 61 - 67, a portal hit: walker.set_position(destination)
StepPortal ==
    /\ pc = "loop"
    /\ "True" \in has_possible_moves(walker, plane)
    /\ \E next_position \in get_next_move(walker) :
           LET inter == Resolve(next_position)
               destination == plane.portals[inter.idx].destination
           IN  /\ inter.tag = "portal"
               /\ EndOfStep(set_position(walker, destination[1], destination[2]),
                            inter, sim)

\* lines 107 - 123: the totals and the per-run record
EndRun ==
    /\ pc = "endrun"
    /\ tot' = [tot EXCEPT
                 !.exit_time = @ + (IF sim.exit_time = None THEN 0 ELSE sim.exit_time[1]),
                 !.steps_to_exit = @ + sim.steps_to_exit,
                 !.y_axis_crosses = @ + sim.y_axis_cross_count,
                 !.unsuccessful_moves = @ + sim.unsuccessful_moves]
    /\ multi_simulation_stats' = Append(multi_simulation_stats,
           [index |-> i + 1,
            steps_to_exit |-> sim.steps_to_exit,
            exit_time |-> sim.exit_time,
            y_axis_crosses |-> sim.y_axis_cross_count,
            avg_origin |-> Div(tot.distance_from_origin, i + 1),
            avg_x_axis |-> Div(tot.distance_from_x_axis, i + 1),
            avg_y_axis |-> Div(tot.distance_from_y_axis, i + 1),
            unsuccessful_moves |-> tot'.unsuccessful_moves,
            simulation_stats |-> sim.stats])
    /\ i' = i + 1
    /\ pc' = IF i + 1 < args.simulations THEN "start" ELSE "report"
    /\ UNCHANGED <<args, plane, step, walker, sim, previous_position, intersection,
                   trace, printed>>

\* lines 125 - 135: the session averages
Report ==
    /\ pc = "report"
    /\ printed' = [origin |-> Div(tot.distance_from_origin, args.steps * args.simulations),
                   x_axis |-> Div(tot.distance_from_x_axis, args.steps * args.simulations),
                   y_axis |-> Div(tot.distance_from_y_axis, args.steps * args.simulations),
                   unsuccessful_moves |-> Div(tot.unsuccessful_moves, args.simulations),
                   steps_to_exit |-> Div(tot.steps_to_exit, args.simulations),
                   exit_time |-> Div(tot.exit_time, args.simulations),
                   y_axis_crosses |-> Div(tot.y_axis_crosses, args.simulations)]
    /\ pc' = "done"
    /\ UNCHANGED <<args, plane, i, step, walker, sim, tot, multi_simulation_stats,
                   previous_position, intersection, trace>>

Next ==
    \/ StartRun
    \/ NoMoves
    \/ HasPossibleMovesRaises
    \/ CheckIntersectionRaises
    \/ StepMove
    \/ StepObstacle
    \/ StepPortal
    \/ EndRun
    \/ Report

Spec == Init /\ [][Next]_vars

---------------------------------------------------------------------------
(* Definitions used to state the properties *)

\* the action is a completed or interrupted iteration of the inner loop
\* that resolved its move
Stepped == Len(trace') = Len(trace) + 1

\* the position before step k of the run
Before(k) == IF k = 1 THEN Origin ELSE trace[k - 1]

\* sqrt(x * x + y * y) > 10, computed on the squares
OutsideRadius(p) == p[1] * p[1] + p[2] * p[2] > (10 * Unit) * (10 * Unit)

\* the segment a -> b has a point in common with some obstacle
HitsObstacle(a, b) ==
    \E k \in 1..Len(plane.obstacles) :
        Intersection(a, b, plane.obstacles[k].start, plane.obstacles[k].end).kind
            # "empty"

\* four obstacle segments that form a closed convex box
ClosedBox(obs) ==
    /\ Len(obs) = 4
    /\ \A k \in 1..4 : obs[k].end = obs[(k % 4) + 1].start

\* p is strictly inside the box
InsideBox(p, obs) ==
    \A k \in 1..4 :
        /\ Cross(obs[k].start, obs[k].end, p) # 0
        /\ Sgn(Cross(obs[k].start, obs[k].end, p))
             = Sgn(Cross(obs[1].start, obs[1].end, p))

\* p is enclosed by a closed box that every unit move from p leaves
Enclosed(p, obs) ==
    /\ ClosedBox(obs)
    /\ InsideBox(p, obs)
    /\ \A mv \in UnitCircle : ~InsideBox(<<p[1] + mv[1], p[2] + mv[2]>>, obs)

---------------------------------------------------------------------------
(* Properties *)

\* C1: after a step that ended in an ordinary committed move, the segment
\* from the previous position to the walker's new position intersects no
\* obstacle segment.
C1_CommittedMoveCrossesNoObstacle ==
    intersection.tag = "point" =>
        ~HitsObstacle(previous_position, get_position(walker))

\* C2: no step makes the simulation loop raise an error; a run ends only by
\* exhausting its step budget or by has_possible_moves returning false.
C2_NoStepRaises == pc \notin {"IndexError", "AttributeError"}

\* C3: in every reachable state of a run the walker's path length equals its
\* step count + 1.
C3_PathLength == Len(walker.path) = walker.steps + 1

\* a teleport after committed moves, not followed by an error
C3_Witness ==
    /\ pc = "loop"
    /\ intersection.tag = "portal"
    /\ walker.steps >= 1
    /\ get_position(walker) # walker.path[Len(walker.path)]

\* C4: in every reachable state of a run in which no error was raised the
\* walker's position equals the last entry of its path, also after a portal
\* teleport.
C4_PositionIsLastPathEntry ==
    pc \notin {"IndexError", "AttributeError"} =>
        get_position(walker) = walker.path[Len(walker.path)]

\* C5: a step whose check_intersection result is obstacle-tagged leaves the
\* walker's position, step count and path unchanged and adds exactly 1 to the
\* run's unsuccessful-move counter, and no other step increases that counter.
C5_ObstacleRejectsMove ==
    [][/\ (Stepped /\ intersection'.tag = "obstacle") =>
            /\ walker' = walker
            /\ sim'.unsuccessful_moves = sim.unsuccessful_moves + 1
       /\ sim'.unsuccessful_moves > sim.unsuccessful_moves =>
            (Stepped /\ intersection'.tag = "obstacle")]_vars

\* an obstacle rejected a move of a walker that had already moved
C5_Witness ==
    /\ intersection.tag = "obstacle"
    /\ sim.unsuccessful_moves >= 1
    /\ walker.steps >= 1
    /\ get_position(walker) # Origin

\* C6: a step whose check_intersection result is portal-tagged leaves the
\* walker exactly at the portal's destination and does not increment its
\* step count.
C6_PortalTeleports ==
    [][(Stepped /\ intersection'.tag = "portal") =>
          /\ get_position(walker') = plane.portals[intersection'.idx].destination
          /\ walker'.steps = walker.steps]_vars

\* a walker that was teleported without an error
C6_Witness ==
    /\ pc \in {"loop", "endrun"}
    /\ intersection.tag = "portal"
    /\ get_position(walker) = plane.portals[intersection.idx].destination
    /\ get_position(walker) # previous_position

\* C7: has_possible_moves returns false for a walker enclosed by a closed box
\* of four obstacles smaller than any unit move, also when the walker is at
\* the origin.
C7_EnclosedWalkerHasNoMoves ==
    (pc = "loop" /\ Enclosed(get_position(walker), plane.obstacles)) =>
        has_possible_moves(walker, plane) = {"False"}

\* the run's cumulative distance-from-origin sum at the cutoff step, from its
\* per-step record n_steps: the average times n_steps
CutoffSum(run) ==
    (run.simulation_stats[args.n_steps].origin[1] * args.n_steps)
        \div run.simulation_stats[args.n_steps].origin[2]

RECURSIVE SumOfCutoffSums(_)
\* the sum of CutoffSum over the first k runs
SumOfCutoffSums(k) ==
    IF k = 0 THEN 0
    ELSE CutoffSum(multi_simulation_stats[k]) + SumOfCutoffSums(k - 1)

\* C8: the printed session average distance from the origin equals the mean
\* over the K runs of each run's cumulative distance sum at step n_steps,
\* divided by the step budget (for sessions in which every run has a record
\* n_steps).
C8_SessionAverage ==
    (/\ pc = "done"
     /\ \A k \in 1..Len(multi_simulation_stats) :
            Len(multi_simulation_stats[k].simulation_stats) >= args.n_steps) =>
        printed.origin[1] * (args.simulations * args.steps)
            = SumOfCutoffSums(Len(multi_simulation_stats)) * printed.origin[2]

\* the three distance metrics of a position
Metric(m, p) ==
    IF m = "origin" THEN ISqrt((p[1] * p[1] + p[2] * p[2]) * DistPrec * DistPrec)
    ELSE IF m = "x_axis" THEN Abs(p[2])
    ELSE Abs(p[1])

RECURSIVE CumulativeSum(_, _)
\* the metric m summed over the steps 1..k in which the position changed
CumulativeSum(m, k) ==
    IF k = 0 THEN 0
    ELSE CumulativeSum(m, k - 1)
           + (IF trace[k] # Before(k) THEN Metric(m, trace[k]) ELSE 0)

\* C9: the k-th per-step record of a run carries the index k and the three
\* cumulative sums over the steps 1..k (added only in steps where the position
\* changed) divided by k; a run without obstacles and portals and a budget of
\* S steps produces exactly S records.
C9_PerStepRecords ==
    /\ \A k \in 1..Len(sim.stats) :
          /\ sim.stats[k].index = k
          /\ sim.stats[k].origin = <<CumulativeSum("origin", k), k>>
          /\ sim.stats[k].x_axis = <<CumulativeSum("x_axis", k), k>>
          /\ sim.stats[k].y_axis = <<CumulativeSum("y_axis", k), k>>
    /\ (pc = "endrun" /\ plane.obstacles = <<>> /\ plane.portals = <<>>) =>
          Len(sim.stats) = args.steps

\* a finished run of three steps without obstacles and portals, whose first
\* step left the walker where it was and whose last step moved it
C9_Witness ==
    /\ pc = "endrun"
    /\ plane = Free
    /\ Len(sim.stats) = 3
    /\ trace[1] = Origin
    /\ trace[3] # trace[2]
    /\ sim.stats[3].origin[1] > sim.stats[1].origin[1]

\* no position of the run so far is beyond the radius
NeverOutside == \A k \in 1..Len(trace) : ~OutsideRadius(trace[k])

\* C10: within a run the exit metrics are written at most once, at the first
\* step after which the walker is more than 10 from the origin, and later
\* steps do not change them; the per-run record carries them, and reports
\* steps 0 and no time when the distance never exceeded 10.
C10_ExitMetricsWrittenOnce ==
    [][/\ (pc # "start" /\ sim.exit_time # None) =>
            /\ sim'.exit_time = sim.exit_time
            /\ sim'.steps_to_exit = sim.steps_to_exit
       /\ (pc # "start" /\ sim.exit_time = None /\ sim'.exit_time # None) =>
            /\ Stepped
            /\ NeverOutside
            /\ OutsideRadius(get_position(walker'))
            /\ sim'.steps_to_exit = walker'.steps
       /\ (/\ Len(sim'.stats) = Len(sim.stats) + 1
           /\ sim.exit_time = None
           /\ OutsideRadius(get_position(walker'))) => sim'.exit_time # None
       /\ pc = "endrun" =>
            /\ multi_simulation_stats'[i + 1].steps_to_exit = sim.steps_to_exit
            /\ multi_simulation_stats'[i + 1].exit_time = sim.exit_time
            /\ NeverOutside =>
                 /\ multi_simulation_stats'[i + 1].steps_to_exit = 0
                 /\ multi_simulation_stats'[i + 1].exit_time = None]_vars

\* the metrics were written, and a later step of the run changed the position
C10_Witness ==
    /\ sim.exit_time # None
    /\ Len(sim.stats) > sim.exit_time[1]
    /\ trace[Len(trace)] # trace[sim.exit_time[1]]
    /\ sim.steps_to_exit < walker.steps

\* the run's cumulative sum of the metric m at the cutoff step, from the
\* per-step records stats: the average of record n_steps times n_steps
SumAtCutoff(m, stats) ==
    IF Len(stats) < args.n_steps THEN 0
    ELSE (stats[args.n_steps][m][1] * args.n_steps) \div stats[args.n_steps][m][2]

RECURSIVE FoldedOnce(_, _)
\* the sums at the cutoff step of the first k runs, each added once
FoldedOnce(m, k) ==
    IF k = 0 THEN 0
    ELSE SumAtCutoff(m, multi_simulation_stats[k].simulation_stats)
           + FoldedOnce(m, k - 1)

\* the sum at the cutoff step of the run in progress, once it executed that
\* step
FoldedOfRun(m) ==
    IF pc \in {"loop", "endrun"} THEN SumAtCutoff(m, sim.stats) ELSE 0

\* C11: the cross-run totals of the three distance sums hold, for every run
\* that executed step n_steps, that run's cumulative sums at step n_steps,
\* added exactly once whatever the outcome of the step, and nothing for a run
\* that ended before step n_steps.
C11_SumsFoldedOncePerRun ==
    pc \notin {"IndexError", "AttributeError"} =>
        /\ tot.distance_from_origin
             = FoldedOnce("origin", Len(multi_simulation_stats)) + FoldedOfRun("origin")
        /\ tot.distance_from_x_axis
             = FoldedOnce("x_axis", Len(multi_simulation_stats)) + FoldedOfRun("x_axis")
        /\ tot.distance_from_y_axis
             = FoldedOnce("y_axis", Len(multi_simulation_stats)) + FoldedOfRun("y_axis")

\* step k of the run changed the position and crossed the y-axis: the sign of
\* x flipped, or the previous x is 0 and the position two steps prior was on
\* the other side of the axis
CrossesYAxis(k) ==
    /\ trace[k] # Before(k)
    /\ \/ Before(k)[1] * trace[k][1] < 0
       \/ /\ Before(k)[1] = 0
          /\ k >= 2
          /\ Before(k - 1)[1] * trace[k][1] < 0

\* C12: the run's y-axis crossing counter is the number of completed steps
\* that changed the position and in which the sign of x flipped, or the
\* previous x was 0 and the position two steps prior was on the opposite side
\* of the y-axis; no other step changes the counter.
C12_YAxisCrossings ==
    pc \in {"loop", "endrun"} =>
        sim.y_axis_cross_count
            = Cardinality({k \in 1..Len(sim.stats) : CrossesYAxis(k)})

\* the run ended before its step budget: has_possible_moves returned false
EndedEarly == pc = "loop" /\ pc' = "endrun" /\ sim'.stats = sim.stats

\* C13: when has_possible_moves returns false at the start of step k the run
\* stops: it has k - 1 records, the walker is not changed again in that run,
\* the per-run record with these records is appended, and the next run, if
\* any, starts with a fresh walker and fresh statistics.
C13_EarlyTermination ==
    [][/\ (pc = "loop" /\ has_possible_moves(walker, plane) = {"False"}) =>
            /\ pc' = "endrun"
            /\ walker' = walker
            /\ sim' = sim
       /\ EndedEarly =>
            /\ Len(sim'.stats) = step
            /\ walker' = walker
       /\ pc = "endrun" =>
            /\ walker' = walker
            /\ Len(multi_simulation_stats') = Len(multi_simulation_stats) + 1
            /\ multi_simulation_stats'[i + 1].index = i + 1
            /\ multi_simulation_stats'[i + 1].simulation_stats = sim.stats
            /\ pc' = IF i + 1 < args.simulations THEN "start" ELSE "report"
       /\ pc = "start" =>
            /\ pc' = "loop"
            /\ step' = 0
            /\ walker' = Walker(args.walker_type)
            /\ sim' = NewSimulation]_vars

\* the first run ended early at its third step, its record holds two
\* per-step records, and the second run has started and taken a step
C13_Witness ==
    /\ i = 1
    /\ pc = "loop"
    /\ Len(multi_simulation_stats) = 1
    /\ Len(multi_simulation_stats[1].simulation_stats) = 2
    /\ args.steps = 3
    /\ Len(sim.stats) = 1
    /\ walker.steps = 1

\* C14: the unsuccessful-move count stored in the per-run record of run i is
\* the number of moves of run i that an obstacle rejected, whatever was
\* rejected in the runs before it.  (After the record is appended the
\* simulation_* locals still hold the counts of run i.)
C14_UnsuccessfulMovesOfRunAlone ==
    (pc \in {"start", "report", "done"} /\ i >= 1) =>
        multi_simulation_stats[i].unsuccessful_moves = sim.unsuccessful_moves

---------------------------------------------------------------------------
(* src/plane.py: calls of Plane.check_intersection on a plane, with the two
   arguments drawn as two distinct points of a grid.  previous_position
   holds current_position and trace the argument next_position of the
   call. *)

\* the half-width of the grid the arguments are drawn from
MaxCoord == 3

Points == (-MaxCoord..MaxCoord) \X (-MaxCoord..MaxCoord)

\* obstacles and portals that meet a path in the same point, in a corner
\* shared by two of them, or one behind the other
Crossings ==
    [obstacles |-> << Obstacle(<<1, -2>>, <<1, 2>>), Obstacle(<<1, 2>>, <<3, 2>>),
                      Obstacle(<<2, -3>>, <<2, 1>>) >>,
     portals |-> << Portal(<<0, -2>>, <<2, 0>>, <<50, 0>>),
                    Portal(<<-1, -1>>, <<-1, 3>>, <<60, 0>>),
                    Portal(<<-1, 3>>, <<-3, 1>>, <<0, -60>>) >>]

Planes == {Free, Crossings, Walls, Portals}

InitCheck ==
    /\ args = [walker_type |-> NORMAL_WALKER, steps |-> 1, simulations |-> 1,
               n_steps |-> 1]
    /\ plane \in Planes
    /\ pc = "check"
    /\ i = 0
    /\ step = 0
    /\ walker = Walker(args.walker_type)
    /\ sim = NewSimulation
    /\ tot = NoTotals
    /\ multi_simulation_stats = <<>>
    /\ previous_position \in Points
    /\ intersection = NoIntersection
    /\ trace = <<>>
    /\ printed = None

\* plane.check_intersection(current_position, next_position) returns
CheckReturns ==
    /\ pc = "check"
    /\ \E next_position \in Points \ {previous_position} :
           /\ check_intersection(plane, previous_position, next_position).tag
                 # "AttributeError"
           /\ intersection' = check_intersection(plane, previous_position, next_position)
           /\ trace' = <<next_position>>
    /\ pc' = "checked"
    /\ UNCHANGED <<args, plane, i, step, walker, sim, tot, multi_simulation_stats,
                   previous_position, printed>>

\* plane.check_intersection(current_position, next_position) raises
CheckRaises ==
    /\ pc = "check"
    /\ \E next_position \in Points \ {previous_position} :
           /\ check_intersection(plane, previous_position, next_position).tag
                 = "AttributeError"
           /\ trace' = <<next_position>>
    /\ pc' = "AttributeError"
    /\ UNCHANGED <<args, plane, i, step, walker, sim, tot, multi_simulation_stats,
                   previous_position, intersection, printed>>

NextCheck ==
    \/ CheckReturns
    \/ CheckRaises

CheckSpec == InitCheck /\ [][NextCheck]_vars

\* the obstacles and then the portals of the plane, in insertion order
Scanned(pl) ==
    [k \in 1..(Len(pl.obstacles) + Len(pl.portals)) |->
        IF k <= Len(pl.obstacles)
        THEN [tag |-> "obstacle", idx |-> k, seg |-> pl.obstacles[k]]
        ELSE [tag |-> "portal", idx |-> k - Len(pl.obstacles),
              seg |-> pl.portals[k - Len(pl.obstacles)]]]

\* the intersection of the path of the call with the k-th scanned object
HitOf(k) ==
    Intersection(previous_position, trace[1], Scanned(plane)[k].seg.start,
                 Scanned(plane)[k].seg.end)

\* the scanned objects that meet the path of the call in a point
Hits == {k \in DOMAIN Scanned(plane) : HitOf(k).kind = "point"}

\* the k-th object is met no later than the j-th
NoFarther(k, j) == HitOf(k).num * HitOf(j).den <= HitOf(j).num * HitOf(k).den

====
